---- MODULE Spec2Model ----
(***************************************************************************)
(* The rate-limited, retrying GraphQL request pipeline of monday-cli:      *)
(*   utils/rate_limit.py      MondayRateLimiter (sliding window limiter)    *)
(*   utils/retry.py           create_retry_decorator (tenacity policy)      *)
(*   client/graphql_client.py MondayGraphQLClient (_make_request,           *)
(*                            _rate_limited_request, execute_query)         *)
(* Time is counted in whole seconds.  Text is a sequence of one-character   *)
(* strings, so that lower(), substring search, int() and "; ".join() are    *)
(* computed the way the Python code computes them.                          *)
(***************************************************************************)
EXTENDS Integers, Sequences, FiniteSets, TLC

\* ------------------------------------------------------------------------
\* Bounds of the model
\* ------------------------------------------------------------------------
MaxRequests == 3      \* logical requests (execute_query calls) per run
MaxGap == 2           \* seconds that may pass between two requests
MaxOversleep == 1     \* seconds time.sleep() may overshoot
MaxLag == 1           \* seconds between two readings of the clock in one admission
MaxErrors == 2        \* entries of a GraphQL "errors" array
MaxHeaderLen == 3     \* characters of a Retry-After header value
MaxAttemptNumber == 8 \* attempt numbers the backoff table is computed for
MaxFactor == 6        \* largest backoff multiplier tried

\* ------------------------------------------------------------------------
\* Program constants (constants.py)
\* ------------------------------------------------------------------------
DEFAULT_RETRY_MAX_ATTEMPTS == 3
DEFAULT_RETRY_MIN_WAIT == 1
DEFAULT_RETRY_MAX_WAIT == 60
DEFAULT_RETRY_AFTER == 60
COMPLEXITY_WARNING_THRESHOLD == 1000000

\* ------------------------------------------------------------------------
\* Text helpers
\* ------------------------------------------------------------------------
Digits == {"0", "1", "2"}

DigitValue(c) == IF c = "0" THEN 0 ELSE IF c = "1" THEN 1 ELSE 2

\* str.lower() on one character
LowerChar(c) ==
    CASE c = "C" -> "c"
      [] c = "O" -> "o"
      [] c = "M" -> "m"
      [] c = "P" -> "p"
      [] c = "L" -> "l"
      [] c = "E" -> "e"
      [] c = "X" -> "x"
      [] c = "I" -> "i"
      [] c = "T" -> "t"
      [] c = "Y" -> "y"
      [] c = "Q" -> "q"
      [] OTHER -> c

\* str.lower()
Lower(s) == [i \in 1..Len(s) |-> LowerChar(s[i])]

\* needle in s
Contains(s, needle) ==
    \E i \in 1..(Len(s) - Len(needle) + 1) :
        SubSeq(s, i, i + Len(needle) - 1) = needle

Complexity == <<"c", "o", "m", "p", "l", "e", "x", "i", "t", "y">>

\* str.strip(): the text without leading and trailing blanks
RECURSIVE LStrip(_)
LStrip(s) == IF Len(s) > 0 /\ s[1] = " " THEN LStrip(Tail(s)) ELSE s

RECURSIVE RStrip(_)
RStrip(s) ==
    IF Len(s) > 0 /\ s[Len(s)] = " " THEN RStrip(SubSeq(s, 1, Len(s) - 1)) ELSE s

Strip(s) == RStrip(LStrip(s))

RECURSIVE DecimalValue(_)
DecimalValue(ds) ==
    IF Len(ds) = 0 THEN 0
    ELSE 10 * DecimalValue(SubSeq(ds, 1, Len(ds) - 1)) + DigitValue(ds[Len(ds)])

\* int(text): blanks stripped, an optional sign, then one or more digits;
\* anything else raises ValueError
PyInt(s) ==
    LET t == Strip(s)
        signed == Len(t) > 0 /\ t[1] \in {"-", "+"}
        ds == IF signed THEN Tail(t) ELSE t
    IN  IF Len(ds) = 0 \/ \E i \in 1..Len(ds) : ds[i] \notin Digits
        THEN [ok |-> FALSE, value |-> 0]
        ELSE [ok |-> TRUE,
              value |-> IF signed /\ t[1] = "-" THEN 0 - DecimalValue(ds)
                        ELSE DecimalValue(ds)]

\* sep.join(parts)
RECURSIVE Join(_, _)
Join(parts, sep) ==
    IF Len(parts) = 0 THEN <<>>
    ELSE IF Len(parts) = 1 THEN parts[1]
    ELSE parts[1] \o sep \o Join(Tail(parts), sep)

\* ------------------------------------------------------------------------
\* What one HTTP POST can come back with (httpx) and what the server sends
\* ------------------------------------------------------------------------
HeaderChars == {"0", "1", "2", "-", " ", "x"}

RECURSIVE Texts(_, _)
\* all texts over alphabet A of at most n characters
Texts(A, n) ==
    IF n = 0 THEN {<<>>}
    ELSE LET shorter == Texts(A, n - 1)
         IN  shorter \cup {Append(t, c) : t \in shorter, c \in A}

HeaderValues == Texts(HeaderChars, MaxHeaderLen)

MsgComplexity == Complexity
MsgMixedCase == <<"Q", " ", "C", "o", "m", "P", "L", "E", "x", "i", "t", "Y", " ", "5">>
MsgNearMiss == <<"c", "o", "m", "p", "l", "e", "x", "i", "t", " ", "y">>
MsgNotFound == <<"n", "o", "t", " ", "f", "o", "u", "n", "d">>
ReprCode == <<"{", "c", "o", "d", "e", ":", "C", "o", "m", "p", "l", "e", "x", "i", "t", "y", "}">>
ReprEmpty == <<"{", "}">>

\* one entry of the "errors" array: a JSON object, with or without a
\* "message" key; str is Python's str(err) of the entry
ErrorEntries ==
    {[has_message |-> TRUE, message |-> m, str |-> <<"{">> \o m \o <<"}">>] :
        m \in {MsgComplexity, MsgMixedCase, MsgNearMiss, MsgNotFound}}
    \cup {[has_message |-> FALSE, message |-> <<>>, str |-> r] :
        r \in {ReprCode, ReprEmpty}}

RECURSIVE Arrays(_, _)
Arrays(S, n) ==
    IF n = 0 THEN {<<>>}
    ELSE LET shorter == Arrays(S, n - 1)
         IN  shorter \cup {Append(a, e) : a \in shorter, e \in S}

DataValues == {"d1", "d2"}

\* no "complexity" object in data
NoComplexity == 0 - 1

\* data.complexity.after, the remaining budget the server reports
ComplexityAfter == {NoComplexity, COMPLEXITY_WARNING_THRESHOLD - 1, COMPLEXITY_WARNING_THRESHOLD}

NoBody ==
    [json |-> "none", has_data |-> FALSE, data |-> "", after |-> NoComplexity,
     errors_key |-> "absent", errors |-> <<>>]

\* bodies: text that is not JSON, a JSON array, or a JSON object with the
\* optional keys "data" (with or without a complexity object) and "errors"
\* (absent, null, or an array)
Bodies ==
    {[json |-> j, has_data |-> FALSE, data |-> "", after |-> NoComplexity,
      errors_key |-> "absent", errors |-> <<>>] : j \in {"invalid", "array"}}
    \cup {[json |-> "object", has_data |-> hd, data |-> IF hd THEN d ELSE "",
           after |-> IF hd THEN a ELSE NoComplexity,
           errors_key |-> k, errors |-> IF k = "array" THEN es ELSE <<>>] :
            hd \in BOOLEAN, d \in DataValues, a \in ComplexityAfter,
            k \in {"absent", "null", "array"},
            es \in Arrays(ErrorEntries, MaxErrors)}

SmallBodies ==
    {b \in Bodies : /\ Len(b.errors) <= 1
                    /\ (b.has_data => b.data = "d1")
                    /\ b.after # COMPLEXITY_WARNING_THRESHOLD}

TransportFailures == {"timeout", "network", "connect", "protocol"}

Statuses == {200, 204, 304, 400, 401, 429, 500}

NoHeader == [present |-> FALSE, value |-> <<>>]

Response(t, st, h, b) == [transport |-> t, status |-> st, retry_after |-> h, body |-> b]

\* every raw outcome of client.post() the model tries
Responses ==
    {Response(t, 0, NoHeader, NoBody) : t \in TransportFailures}
    \cup {Response("ok", 429, h, b) :
            h \in {NoHeader} \cup {[present |-> TRUE, value |-> v] : v \in HeaderValues},
            b \in {x \in SmallBodies : x.json = "invalid"}}
    \cup {Response("ok", 429, NoHeader, b) : b \in SmallBodies}
    \cup {Response("ok", st, NoHeader, b) :
            st \in Statuses \ {200, 429}, b \in SmallBodies}
    \cup {Response("ok", 200, NoHeader, b) : b \in Bodies}

\* ------------------------------------------------------------------------
\* MondayGraphQLClient._make_request: the result of one attempt
\* ------------------------------------------------------------------------
Returned(b) ==
    [kind |-> "ok", retry_after |-> 0, message |-> <<>>, response |-> b]

Raised(k, ra, msg, b) ==
    [kind |-> k, retry_after |-> ra, message |-> msg, response |-> b]

\* response.raise_for_status() passes 2xx only
IsSuccess(st) == st >= 200 /\ st <= 299

\* err.get("message", str(err))
ErrorMessage(err) == IF err.has_message THEN err.message ELSE err.str

ErrorMessages(errors) == [i \in 1..Len(errors) |-> ErrorMessage(errors[i])]

\* lines 106-113: an HTTPStatusError
ClassifyStatus(resp) ==
    IF resp.status = 401
    THEN Raised("AuthenticationError", 0, <<"Invalid API token">>, NoBody)
    ELSE IF resp.status = 429
    THEN IF ~resp.retry_after.present
         THEN Raised("RateLimitError", DEFAULT_RETRY_AFTER, <<>>, NoBody)
         ELSE LET n == PyInt(resp.retry_after.value)
              IN  IF n.ok THEN Raised("RateLimitError", n.value, <<>>, NoBody)
                  ELSE Raised("ValueError", 0, <<>>, NoBody)
    ELSE Raised("MondayAPIError", 0, <<"HTTP ", ToString(resp.status), ": ">>, NoBody)

ClassifyErrorsCaseSensitive(body) ==
    LET error_messages == ErrorMessages(body.errors)
        error_msg == Join(error_messages, <<";", " ">>)
    IN  IF \E i \in 1..Len(error_messages) : Contains(error_messages[i], Complexity)
        THEN Raised("ComplexityError", 0,
                    <<"Query complexity too high: ">> \o error_msg, NoBody)
        ELSE Raised("MondayAPIError", 0, <<"GraphQL errors: ">> \o error_msg, body)

\* lines 136-146: the GraphQL errors of a parsed body
ClassifyErrors(body) ==
    LET error_messages == ErrorMessages(body.errors)
        error_msg == Join(error_messages, <<";", " ">>)
    IN  IF \E i \in 1..Len(error_messages) :
              Contains(Lower(error_messages[i]), Complexity)
        THEN Raised("ComplexityError", 0,
                    <<"Query complexity too high: ">> \o error_msg, NoBody)
        ELSE Raised("MondayAPIError", 0, <<"GraphQL errors: ">> \o error_msg, body)

ComplexityLogAfterErrors(resp) ==
    IF resp.transport = "ok" /\ IsSuccess(resp.status) /\ resp.body.json = "object"
       /\ resp.body.has_data /\ resp.body.after # NoComplexity
       /\ ~(resp.body.errors_key = "array" /\ Len(resp.body.errors) > 0)
    THEN IF resp.body.after < COMPLEXITY_WARNING_THRESHOLD THEN "warning" ELSE "info"
    ELSE "none"

\* lines 124-134: what an attempt logs about the complexity budget ("warning"
\* follows the "info" line); reached once the body has been parsed, before
\* the errors are looked at
ComplexityLog(resp) ==
    IF resp.transport = "ok" /\ IsSuccess(resp.status) /\ resp.body.json = "object"
       /\ resp.body.has_data /\ resp.body.after # NoComplexity
    THEN IF resp.body.after < COMPLEXITY_WARNING_THRESHOLD THEN "warning" ELSE "info"
    ELSE "none"

MakeRequestPayloadFirst(resp) ==
    IF resp.transport \in {"timeout", "network", "connect"}
    THEN Raised("NetworkError", 0, <<"Network error: ">>, NoBody)
    ELSE IF resp.transport # "ok"
    THEN Raised("httpx.ProtocolError", 0, <<>>, NoBody)
    ELSE IF resp.body.json = "object" /\ resp.body.errors_key = "array"
            /\ Len(resp.body.errors) > 0
    THEN ClassifyErrors(resp.body)
    ELSE IF ~IsSuccess(resp.status) THEN ClassifyStatus(resp)
    ELSE IF resp.body.json = "invalid"
    THEN Raised("MondayAPIError", 0, <<"Invalid JSON response: ">>, NoBody)
    ELSE Returned(resp.body)

MakeRequestAnyErrorsKey(resp) ==
    IF resp.transport \in {"timeout", "network", "connect"}
    THEN Raised("NetworkError", 0, <<"Network error: ">>, NoBody)
    ELSE IF resp.transport # "ok"
    THEN Raised("httpx.ProtocolError", 0, <<>>, NoBody)
    ELSE IF ~IsSuccess(resp.status) THEN ClassifyStatus(resp)
    ELSE IF resp.body.json = "invalid"
    THEN Raised("MondayAPIError", 0, <<"Invalid JSON response: ">>, NoBody)
    ELSE IF resp.body.json = "object" /\ resp.body.errors_key # "absent"
    THEN ClassifyErrors(resp.body)
    ELSE Returned(resp.body)

\* lines 103-148
MakeRequest(resp) ==
    IF resp.transport \in {"timeout", "network", "connect"}
    THEN Raised("NetworkError", 0, <<"Network error: ">>, NoBody)
    ELSE IF resp.transport # "ok"
    THEN Raised("httpx.ProtocolError", 0, <<>>, NoBody)
    ELSE IF ~IsSuccess(resp.status) THEN ClassifyStatus(resp)
    ELSE IF resp.body.json = "invalid"
    THEN Raised("MondayAPIError", 0, <<"Invalid JSON response: ">>, NoBody)
    ELSE IF resp.body.json = "object" /\ resp.body.errors_key = "array"
            /\ Len(resp.body.errors) > 0
    THEN ClassifyErrors(resp.body)
    ELSE Returned(resp.body)

\* ------------------------------------------------------------------------
\* utils/retry.py: the tenacity policy built by create_retry_decorator
\* ------------------------------------------------------------------------
Min(a, b) == IF a <= b THEN a ELSE b
Max(a, b) == IF a >= b THEN a ELSE b

RECURSIVE Pow2(_)
Pow2(n) == IF n <= 0 THEN 1 ELSE 2 * Pow2(n - 1)

WaitExponentialByAttempt(multiplier, attempt) ==
    Max(Max(0, DEFAULT_RETRY_MIN_WAIT),
        Min(multiplier * Pow2(attempt), DEFAULT_RETRY_MAX_WAIT))

\* wait_exponential(multiplier, min, max) for the wait after a failed attempt
WaitExponential(multiplier, attempt) ==
    Max(Max(0, DEFAULT_RETRY_MIN_WAIT),
        Min(multiplier * Pow2(attempt - 1), DEFAULT_RETRY_MAX_WAIT))

RetryIfAnyCliError(outcome) ==
    outcome.kind \in {"NetworkError", "RateLimitError", "MondayAPIError",
                      "AuthenticationError", "ComplexityError"}

\* retry_if_exception_type(...): the raw httpx exceptions never leave
\* _make_request, which turns them into NetworkError
RetryIf(outcome) == outcome.kind \in {"NetworkError", "RateLimitError"}

StopAfterAttemptLate(max, attempt) == attempt > max

\* stop_after_attempt(max_attempts)
StopAfterAttempt(max, attempt) == attempt >= max

\* ------------------------------------------------------------------------
\* utils/rate_limit.py: MondayRateLimiter
\* ------------------------------------------------------------------------
EvictOnce(times, cutoff) ==
    IF Len(times) > 0 /\ times[1] < cutoff THEN Tail(times) ELSE times

RECURSIVE Evict(_, _)
\* while call_times and call_times[0] < cutoff: popleft()
Evict(times, cutoff) ==
    IF Len(times) > 0 /\ times[1] < cutoff THEN Evict(Tail(times), cutoff)
    ELSE times

WrapperLateLimit(times, n, p, t1, over, lag) ==
    LET kept == Evict(times, t1 - p)
    IN  IF Len(kept) > n
        THEN LET sleep_time == p - (t1 - kept[1])
                 t2 == IF sleep_time > 0 THEN t1 + sleep_time + over ELSE t1
                 kept2 == Evict(kept, t2 - p)
             IN  [error |-> FALSE, call_times |-> Append(kept2, t2 + lag),
                  now |-> t2 + lag, sleep_time |-> sleep_time, waited |-> TRUE,
                  slept |-> IF sleep_time > 0 THEN 1 ELSE 0, checked |-> t2]
        ELSE [error |-> FALSE, call_times |-> Append(kept, t1 + lag),
              now |-> t1 + lag, sleep_time |-> 0, waited |-> FALSE, slept |-> 0,
              checked |-> t1]

\* the wrapper up to its call of func, for the clock readings
\*   t1 at line 48, t1 + sleep_time + over at line 61, and lag later at 66;
\* slept counts the calls of time.sleep, checked is the reading the last
\* eviction used
Wrapper(times, n, p, t1, over, lag) ==
    LET kept == Evict(times, t1 - p)
    IN  IF Len(kept) >= n
        THEN IF Len(kept) = 0
             THEN [error |-> TRUE, call_times |-> kept, now |-> t1, sleep_time |-> 0,
                   waited |-> FALSE, slept |-> 0, checked |-> t1]
             ELSE LET sleep_time == p - (t1 - kept[1])
                      t2 == IF sleep_time > 0 THEN t1 + sleep_time + over ELSE t1
                      kept2 == Evict(kept, t2 - p)
                  IN  [error |-> FALSE, call_times |-> Append(kept2, t2 + lag),
                       now |-> t2 + lag, sleep_time |-> sleep_time, waited |-> TRUE,
                       slept |-> IF sleep_time > 0 THEN 1 ELSE 0, checked |-> t2]
        ELSE [error |-> FALSE, call_times |-> Append(kept, t1 + lag),
              now |-> t1 + lag, sleep_time |-> 0, waited |-> FALSE, slept |-> 0,
              checked |-> t1]

\* ------------------------------------------------------------------------
\* Configurations and responses the runs are drawn from
\* ------------------------------------------------------------------------
MaxCalls == 2
MaxPeriod == 3
MinAttempts == 0 - 1
MaxAttempts == 3
Factors == {1, 2}

Header(v) == [present |-> TRUE, value |-> v]

OkBody(d) ==
    [json |-> "object", has_data |-> TRUE, data |-> d, after |-> NoComplexity,
     errors_key |-> "null", errors |-> <<>>]

ErrBody(m) ==
    [json |-> "object", has_data |-> FALSE, data |-> "", after |-> NoComplexity,
     errors_key |-> "array",
     errors |-> <<[has_message |-> TRUE, message |-> m, str |-> <<"{">> \o m \o <<"}">>]>>]

InvalidBody ==
    [json |-> "invalid", has_data |-> FALSE, data |-> "", after |-> NoComplexity,
     errors_key |-> "absent", errors |-> <<>>]

\* one response of each class, for the runs of the whole pipeline
PipelineResponses ==
    {Response("timeout", 0, NoHeader, NoBody),
     Response("ok", 401, NoHeader, InvalidBody),
     Response("ok", 429, Header(<<"2">>), InvalidBody),
     Response("ok", 429, Header(<<"x">>), InvalidBody),
     Response("ok", 500, NoHeader, InvalidBody),
     Response("ok", 200, NoHeader, OkBody("d1")),
     Response("ok", 200, NoHeader, OkBody("d2")),
     Response("ok", 200, NoHeader, ErrBody(MsgMixedCase)),
     Response("ok", 200, NoHeader, ErrBody(MsgNotFound)),
     Response("ok", 200, NoHeader, [InvalidBody EXCEPT !.json = "array"]),
     Response("ok", 200, NoHeader, [InvalidBody EXCEPT !.json = "object"]),
     Response("ok", 200, NoHeader, [OkBody("d1") EXCEPT !.errors_key = "array"])}

\* ------------------------------------------------------------------------
\* State
\* ------------------------------------------------------------------------
VARIABLES
    calls,            \* MondayRateLimiter.calls
    period,           \* MondayRateLimiter.period
    max_attempts,     \* retry_max_attempts given to create_retry_decorator
    backoff_factor,   \* retry_backoff_factor given to create_retry_decorator
    clock,            \* time.time(), in seconds
    call_times,       \* MondayRateLimiter.call_times
    pc,               \* "idle", or "attempt" inside execute_query
    attempt_number,   \* tenacity's retry_state.attempt_number
    nreq,             \* execute_query calls made so far
    recorded,         \* history: the timestamps the limiter appended, and
    posts,            \* the times of client.post(), of the last period seconds
    admissions,       \* history: limiter admissions of the current request
    outcomes,         \* history: _make_request results of the current request
    sleeps,           \* history: backoff sleeps of the current request
    result,           \* what the last finished execute_query gave its caller
    last_response,    \* the raw response of the last attempt
    logged,           \* the complexity log line of the last attempt
    last_admission,   \* the wrapper's frame while its request runs
    retried_before,   \* history: an earlier request made a retry
    cmd,              \* the CLI command that runs: its position and output
    threads,          \* the frames of the callers that share one limiter
    doc,              \* a document and the docs put that runs on it
    lst               \* the items list / subitems list that runs

vars ==
    <<calls, period, max_attempts, backoff_factor, clock, call_times, pc,
      attempt_number, nreq, recorded, posts, admissions, outcomes, sleeps,
      result, last_response, logged, last_admission, retried_before, cmd,
      threads, doc, lst>>

config == <<calls, period, max_attempts, backoff_factor>>

request ==
    <<pc, attempt_number, nreq, recorded, posts, admissions, outcomes, sleeps,
      result, last_response, logged, last_admission, retried_before>>

NoOutcome == Raised("none", 0, <<>>, NoBody)

NoResult == [status |-> "none", data |-> "", error |-> NoOutcome]

NoResponse == Response("none", 0, NoHeader, NoBody)

NoAdmission ==
    [active |-> FALSE, before |-> <<>>, t1 |-> 0, slept |-> 0, sleep_time |-> 0,
     checked |-> 0, now |-> 0]

\* ------------------------------------------------------------------------
\* commands/*.py: what a command sees of execute_query / execute_mutation
\* ------------------------------------------------------------------------
CliErrorKinds ==
    {"AuthenticationError", "RateLimitError", "ComplexityError", "NetworkError",
     "MondayAPIError"}

\* what the returned data says of the entity asked for: "empty" is an empty
\* list or a falsy field, "present" the entity, "absent" a board without it
Found == {"empty", "present", "absent"}

ExecReturned(found) == [kind |-> "ok", found |-> found, unauthorized |-> FALSE]

\* unauthorized: the text of the error contains "unauthorized" in any case
ExecRaised(kind, unauthorized) ==
    [kind |-> kind, found |-> "empty", unauthorized |-> unauthorized]

ExecResults ==
    {ExecReturned(f) : f \in Found}
        \cup {ExecRaised(k, FALSE) : k \in CliErrorKinds}
        \cup {ExecRaised("MondayAPIError", TRUE)}

CommandNames == {"get_item", "list_boards", "delete_item", "delete_group"}

NoExit == 0 - 1

NoCommand ==
    [name |-> "none", pc |-> "off", skip_confirm |-> FALSE, raised |-> {},
     pending |-> FALSE, verified |-> "none", printed |-> {}, exit |-> NoExit,
     count |-> 0, looked |-> "none", confirmed |-> "none", mutations |-> 0,
     body_exit |-> NoExit]

\* ------------------------------------------------------------------------
\* utils/rate_limit.py: the wrapper's frame in one of several callers
\* ------------------------------------------------------------------------
Callers == {1, 2}

IdleCaller == [pc |-> "idle", current_time |-> 0, sleep_time |-> 0, admitted |-> 0]

\* ------------------------------------------------------------------------
\* commands/docs.py: a document and the docs put that runs on it
\* ------------------------------------------------------------------------
DOC_BLOCKS_LIMIT == 100

NoCount == 0 - 1

NoDoc ==
    [pc |-> "off", exists |-> FALSE, initial |-> 0, blocks |-> 0, page |-> 0,
     fetched |-> 0, deleted |-> 0, returned |-> NoCount, sent |-> FALSE,
     exit |-> NoExit]

\* ------------------------------------------------------------------------
\* commands/items.py, commands/subitems.py: the list commands' pages
\* ------------------------------------------------------------------------
MAX_PAGES == 1000

\* a cursor is None, the empty string, or the token of the page it leads to
NullCursor == 0 - 1

EmptyCursor == 0

NoList ==
    [name |-> "none", pc |-> "off", all_pages |-> FALSE, filter |-> FALSE,
     next_cursor |-> NullCursor, pages_fetched |-> 0, queries |-> 0,
     requested |-> <<>>, all_items |-> <<>>, shown |-> <<>>, has_more |-> FALSE,
     capped |-> FALSE, printed |-> {}, exit |-> NoExit, body_exit |-> NoExit]

Fresh ==
    /\ lst = NoList
    /\ cmd = NoCommand
    /\ threads = [i \in Callers |-> IdleCaller]
    /\ doc = NoDoc
    /\ clock = 0
    /\ call_times = <<>>
    /\ pc = "idle"
    /\ attempt_number = 0
    /\ nreq = 0
    /\ recorded = <<>>
    /\ posts = <<>>
    /\ admissions = 0
    /\ outcomes = <<>>
    /\ sleeps = <<>>
    /\ result = NoResult
    /\ last_response = NoResponse
    /\ logged = "none"
    /\ last_admission = NoAdmission
    /\ retried_before = FALSE

Init ==
    /\ calls \in 0..MaxCalls
    /\ period \in 1..MaxPeriod
    /\ max_attempts \in MinAttempts..MaxAttempts
    /\ backoff_factor \in Factors
    /\ Fresh

\* the entries of a history that lie in the window (now - p, now]
Recent(times, now, p) == SelectSeq(times, LAMBDA t : t > now - p)

NewRetryStateShared(previous) == IF previous = 0 THEN 1 ELSE previous

\* the function tenacity wraps makes a new RetryCallState on every call:
\* attempt_number starts at 1 whatever the previous call ended with
NewRetryState(previous) == 1

ExecuteResultNoData(outcome) ==
    [status |-> "returned", data |-> "{}", error |-> NoOutcome]

\* execute_query: response.get("data", {}) on what _rate_limited_request returned
ExecuteResult(outcome) ==
    IF outcome.response.json # "object"
    THEN [status |-> "raised", data |-> "",
          error |-> Raised("AttributeError", 0, <<>>, NoBody)]
    ELSE [status |-> "returned",
          data |-> IF outcome.response.has_data THEN outcome.response.data ELSE "{}",
          error |-> NoOutcome]

\* execute_query / execute_mutation is called: _rate_limited_request wraps the
\* retrying _make_request in the limiter, whose wrapper runs first
BeginRequest(gap, over, lag) ==
    /\ pc = "idle"
    /\ nreq < MaxRequests
    /\ nreq' = nreq + 1
    /\ LET w == Wrapper(call_times, calls, period, clock + gap, over, lag)
       IN  /\ clock' = w.now
           /\ call_times' = w.call_times
           /\ outcomes' = <<>>
           /\ sleeps' = <<>>
           /\ last_response' = NoResponse
           /\ logged' = "none"
           /\ retried_before' = (retried_before \/ Len(sleeps) > 0)
           /\ IF w.error
              THEN /\ pc' = "idle"
                   /\ attempt_number' = 0
                   /\ admissions' = 0
                   /\ last_admission' = NoAdmission
                   /\ recorded' = Recent(recorded, w.now, period)
                   /\ result' = [status |-> "raised", data |-> "",
                                 error |-> Raised("IndexError", 0, <<>>, NoBody)]
              ELSE /\ pc' = "attempt"
                   /\ attempt_number' = NewRetryState(attempt_number)
                   /\ admissions' = 1
                   /\ last_admission' =
                         [active |-> TRUE, before |-> call_times, t1 |-> clock + gap,
                          slept |-> w.slept, sleep_time |-> w.sleep_time,
                          checked |-> w.checked, now |-> w.now]
                   /\ recorded' = Recent(Append(recorded, w.now), w.now, period)
                   /\ result' = NoResult
           /\ posts' = Recent(posts, w.now, period)
    /\ UNCHANGED <<config, cmd, threads, doc, lst>>

RetryWaitFromHeader(factor, attempt, outcome) ==
    IF outcome.kind = "RateLimitError" THEN outcome.retry_after
    ELSE WaitExponential(factor, attempt)

\* the wait tenacity takes after a failed attempt: wait_exponential reads the
\* attempt number only, the exception and its retry_after are not consulted
RetryWait(factor, attempt, outcome) == WaitExponential(factor, attempt)

WindowRolledBack(times, outcome) ==
    IF outcome.kind = "ok" \/ times = <<>> THEN times
    ELSE SubSeq(times, 1, Len(times) - 1)

\* the wrapper's last line, return func(*args, **kwargs): whatever func
\* returns or raises, the wrapper does not touch call_times again
WindowAfterCall(times, outcome) == times

\* one pass of tenacity's loop inside the limiter's wrapper: _make_request
\* posts once; the result is returned, or raised, or followed by a backoff
\* sleep and another pass
Attempt(resp) ==
    /\ pc = "attempt"
    /\ LET outcome == MakeRequest(resp)
       IN  /\ outcomes' = Append(outcomes, outcome)
           /\ last_response' = resp
           /\ logged' = ComplexityLog(resp)
           /\ IF outcome.kind = "ok"
              THEN /\ result' = ExecuteResult(outcome)
                   /\ pc' = "idle"
                   /\ last_admission' = NoAdmission
                   /\ UNCHANGED <<clock, attempt_number, sleeps>>
              ELSE IF RetryIf(outcome) /\ ~StopAfterAttempt(max_attempts, attempt_number)
              THEN /\ clock' = clock + RetryWait(backoff_factor, attempt_number, outcome)
                   /\ sleeps' = Append(sleeps, RetryWait(backoff_factor, attempt_number,
                                                         outcome))
                   /\ attempt_number' = attempt_number + 1
                   /\ UNCHANGED <<result, pc, last_admission>>
              ELSE /\ result' = [status |-> "raised", data |-> "", error |-> outcome]
                   /\ pc' = "idle"
                   /\ last_admission' = NoAdmission
                   /\ UNCHANGED <<clock, attempt_number, sleeps>>
           /\ posts' = Recent(Append(posts, clock), clock', period)
           /\ recorded' = Recent(recorded, clock', period)
           /\ call_times' = WindowAfterCall(call_times, outcome)
    /\ UNCHANGED <<config, nreq, admissions, retried_before>>
    /\ UNCHANGED <<cmd, threads, doc, lst>>

Next ==
    \/ \E gap \in 0..MaxGap, over \in 0..MaxOversleep, lag \in 0..MaxLag :
          BeginRequest(gap, over, lag)
    \/ \E resp \in PipelineResponses : Attempt(resp)

Spec == Init /\ [][Next]_vars

\* ------------------------------------------------------------------------
\* Runs of long retry chains, for the backoff delays
\* ------------------------------------------------------------------------
MinFactor == 0 - 1

InitBackoff ==
    /\ calls = 1
    /\ period = 1
    /\ max_attempts = MaxAttemptNumber
    /\ backoff_factor \in MinFactor..MaxFactor
    /\ Fresh

BackoffResponses ==
    {Response("timeout", 0, NoHeader, NoBody),
     Response("ok", 429, NoHeader, InvalidBody)}

NextBackoff ==
    \/ \E gap \in 0..MaxGap : BeginRequest(gap, 0, 0)
    \/ \E resp \in BackoffResponses : Attempt(resp)

SpecBackoff == InitBackoff /\ [][NextBackoff]_vars

\* ------------------------------------------------------------------------
\* Runs of single-attempt requests over every response, for _make_request
\* ------------------------------------------------------------------------
InitClassify ==
    /\ calls = 1
    /\ period = 1
    /\ max_attempts = 1
    /\ backoff_factor = 2
    /\ Fresh

NextClassify ==
    \/ BeginRequest(1, 0, 0)
    \/ \E resp \in Responses : Attempt(resp)

SpecClassify == InitClassify /\ [][NextClassify]_vars

\* ------------------------------------------------------------------------
\* Runs whose retryable failures differ in kind and in Retry-After
\* ------------------------------------------------------------------------
InitRetryAfter ==
    /\ calls = 1
    /\ period = 1
    /\ max_attempts \in 1..MaxAttempts
    /\ backoff_factor \in Factors
    /\ Fresh

RetryAfterResponses ==
    {Response("timeout", 0, NoHeader, NoBody),
     Response("ok", 429, NoHeader, InvalidBody),
     Response("ok", 429, Header(<<"2">>), InvalidBody),
     Response("ok", 200, NoHeader, OkBody("d1"))}

NextRetryAfter ==
    \/ \E gap \in 0..MaxGap : BeginRequest(gap, 0, 0)
    \/ \E resp \in RetryAfterResponses : Attempt(resp)

SpecRetryAfter == InitRetryAfter /\ [][NextRetryAfter]_vars

\* ------------------------------------------------------------------------
\* commands/*.py: the commands, one call of the client at a time
\* ------------------------------------------------------------------------
MaxCommands == 2

HandleErrorNoExit(kind) ==
    IF kind = "AuthenticationError" THEN [message |-> "invalid_token", exit |-> 1]
    ELSE IF kind = "RateLimitError" THEN [message |-> "rate_limit", exit |-> 0]
    ELSE IF kind = "MondayAPIError" THEN [message |-> "api_error", exit |-> 1]
    ELSE [message |-> "unexpected_error", exit |-> 1]

\* the except clauses every command body ends with: AuthenticationError,
\* RateLimitError, MondayAPIError, then Exception, which takes NetworkError,
\* ComplexityError and typer.Exit (kind "Exit"); each ends in typer.Exit(1)
HandleError(kind) ==
    IF kind = "AuthenticationError" THEN [message |-> "invalid_token", exit |-> 1]
    ELSE IF kind = "RateLimitError" THEN [message |-> "rate_limit", exit |-> 1]
    ELSE IF kind = "MondayAPIError" THEN [message |-> "api_error", exit |-> 1]
    ELSE [message |-> "unexpected_error", exit |-> 1]

ErrorMessageKinds == {"invalid_token", "rate_limit", "api_error", "unexpected_error"}

\* the command ends: what it printed last and its exit status
Finish(c, messages, exit) ==
    [c EXCEPT !.pc = "done", !.printed = @ \cup messages, !.exit = exit]

\* an exception of this kind reaches the command's except clauses
Fail(c, kind) ==
    LET h == HandleError(kind) IN Finish(c, {h.message}, h.exit)

\* execute_query / execute_mutation raised inside the command's try
RaisedIn(c, res) == Fail([c EXCEPT !.raised = @ \cup {res.kind}], res.kind)

\* the body prints a message and raises typer.Exit(code) inside its try
ExitIn(c, message, code) ==
    Fail([c EXCEPT !.printed = @ \cup {message}, !.body_exit = code], "Exit")

ProceedsAlways(answer) == TRUE

\* if not confirm_delete: ... raise typer.Exit(0)
Proceeds(answer) == answer

\* the results the API can give for an item (by id) or a board's groups
ResultsFor(name) ==
    IF name = "delete_group" THEN ExecResults
    ELSE {r \in ExecResults : r.found # "absent"}

StartCommand(name, skip) ==
    /\ cmd.pc \in {"off", "done"}
    /\ cmd.count < MaxCommands
    /\ cmd' = [NoCommand EXCEPT !.name = name, !.pc = "lookup",
                                !.skip_confirm = skip, !.count = cmd.count + 1]
    /\ UNCHANGED <<config, clock, call_times, request, threads, doc, lst>>

\* get_item's and list_boards' only query (an empty list of boards ends
\* list_boards with typer.Exit(0)); delete_item's and delete_group's first
\* query, up to the confirmation prompt
Lookup(res) ==
    /\ cmd.pc = "lookup"
    /\ res \in ResultsFor(cmd.name)
    /\ cmd' =
          LET c == [cmd EXCEPT !.looked = res.found]
          IN  IF res.kind # "ok" THEN RaisedIn(cmd, res)
              ELSE IF res.found # "present"
              THEN IF cmd.name = "list_boards" THEN ExitIn(c, "no_results", 0)
                   ELSE ExitIn(c, "not_found", 1)
              ELSE IF cmd.name \in {"get_item", "list_boards"}
              THEN Finish(c, {"output"}, 0)
              ELSE IF cmd.skip_confirm THEN [c EXCEPT !.pc = "delete"]
              ELSE [c EXCEPT !.pc = "confirm", !.printed = @ \cup {"warning"}]
    /\ UNCHANGED <<config, clock, call_times, request, threads, doc, lst>>

\* typer.confirm: a declined prompt raises typer.Exit(0) inside the try
Confirm(answer) ==
    /\ cmd.pc = "confirm"
    /\ cmd' =
          LET c == [cmd EXCEPT !.confirmed = IF answer THEN "yes" ELSE "no"]
          IN  IF Proceeds(answer) THEN [c EXCEPT !.pc = "delete"]
              ELSE ExitIn(c, "cancelled", 0)
    /\ UNCHANGED <<config, clock, call_times, request, threads, doc, lst>>

\* DELETE_ITEM (items.py 813-829) and DELETE_GROUP (groups.py 272-309)
Delete(res) ==
    /\ cmd.pc = "delete"
    /\ res \in ExecResults
    /\ res.found # "absent"
    /\ cmd' =
          LET c == [cmd EXCEPT !.mutations = @ + 1]
          IN  IF res.kind = "ok"
              THEN IF res.found = "present" THEN Finish(c, {"success"}, 0)
                   ELSE IF cmd.name = "delete_item"
                   THEN [c EXCEPT !.pc = "verify", !.printed = @ \cup {"verifying"}]
                   ELSE ExitIn(c, "failed", 1)
              ELSE IF /\ cmd.name = "delete_group"
                      /\ res.kind = "MondayAPIError"
                      /\ res.unauthorized
              THEN [c EXCEPT !.pc = "verify", !.pending = TRUE,
                             !.raised = @ \cup {res.kind}]
              ELSE RaisedIn(c, res)
    /\ UNCHANGED <<config, clock, call_times, request, threads, doc, lst>>

\* the query that looks whether the entity is gone: items.py 832-850 after
\* a delete that returned no data, groups.py 310-338 inside the handler of
\* a MondayAPIError that mentions "unauthorized"
Verify(res) ==
    /\ cmd.pc = "verify"
    /\ res \in ResultsFor(cmd.name)
    /\ cmd' =
          LET c == [cmd EXCEPT !.verified = res.found]
          IN  IF res.kind # "ok" THEN RaisedIn(cmd, res)
              ELSE IF cmd.name = "delete_item"
              THEN IF res.found = "empty" THEN Finish(c, {"success"}, 0)
                   ELSE ExitIn(c, "failed", 1)
              ELSE IF res.found = "absent" THEN Finish(c, {"success"}, 0)
              ELSE Fail(c, "MondayAPIError")
    /\ UNCHANGED <<config, clock, call_times, request, threads, doc, lst>>

InitCommand ==
    /\ calls = 1
    /\ period = 1
    /\ max_attempts = DEFAULT_RETRY_MAX_ATTEMPTS
    /\ backoff_factor = 2
    /\ Fresh

NextCommand ==
    \/ \E name \in CommandNames, skip \in BOOLEAN : StartCommand(name, skip)
    \/ \E res \in ExecResults : Lookup(res)
    \/ \E answer \in BOOLEAN : Confirm(answer)
    \/ \E res \in ExecResults : Delete(res)
    \/ \E res \in ExecResults : Verify(res)

SpecCommand == InitCommand /\ [][NextCommand]_vars

\* ------------------------------------------------------------------------
\* utils/rate_limit.py: two callers in the wrapper of one limiter, one
\* statement at a time (the wrapper takes no lock)
\* ------------------------------------------------------------------------
MaxEntries == 2
MaxClock == 3

Frame(i) == threads[i]

Goto(i, label) == [threads EXCEPT ![i].pc = label]

\* line 48: current_time = time.time()
Enter(i) ==
    /\ Frame(i).pc = "idle"
    /\ Frame(i).admitted < MaxEntries
    /\ threads' = [threads EXCEPT ![i].pc = "evict", ![i].current_time = clock,
                                  ![i].sleep_time = 0]
    /\ UNCHANGED <<config, clock, call_times, request, cmd, doc, lst>>

\* lines 51 and 62: the loop condition
EvictTest(i) ==
    /\ Frame(i).pc \in {"evict", "evict_again"}
    /\ threads' =
          IF /\ Len(call_times) > 0
             /\ call_times[1] < Frame(i).current_time - period
          THEN Goto(i, IF Frame(i).pc = "evict" THEN "pop" ELSE "pop_again")
          ELSE Goto(i, IF Frame(i).pc = "evict" THEN "check" ELSE "record")
    /\ UNCHANGED <<config, clock, call_times, request, cmd, doc, lst>>

\* lines 52 and 63: popleft(), IndexError on an empty deque
Pop(i) ==
    /\ Frame(i).pc \in {"pop", "pop_again"}
    /\ IF call_times = <<>>
       THEN /\ threads' = Goto(i, "failed")
            /\ UNCHANGED call_times
       ELSE /\ call_times' = Tail(call_times)
            /\ threads' = Goto(i, IF Frame(i).pc = "pop" THEN "evict"
                                  ELSE "evict_again")
    /\ UNCHANGED <<config, clock, request, cmd, doc, lst>>

\* line 55: if len(self.call_times) >= self.calls
Check(i) ==
    /\ Frame(i).pc = "check"
    /\ threads' = Goto(i, IF Len(call_times) >= calls THEN "compute" ELSE "record")
    /\ UNCHANGED <<config, clock, call_times, request, cmd, doc, lst>>

\* lines 57-58: sleep_time from call_times[0], IndexError on an empty deque
Compute(i) ==
    /\ Frame(i).pc = "compute"
    /\ threads' =
          IF call_times = <<>> THEN Goto(i, "failed")
          ELSE LET sleep_time == period - (Frame(i).current_time - call_times[1])
               IN  [threads EXCEPT ![i].sleep_time = sleep_time,
                                   ![i].pc = IF sleep_time > 0 THEN "sleep"
                                             ELSE "reread"]
    /\ UNCHANGED <<config, clock, call_times, request, cmd, doc, lst>>

\* lines 59-61: time.sleep(sleep_time) has returned; current_time is read again
Wake(i) ==
    /\ Frame(i).pc \in {"sleep", "reread"}
    /\ Frame(i).pc = "sleep" => clock >= Frame(i).current_time + Frame(i).sleep_time
    /\ threads' = [threads EXCEPT ![i].pc = "evict_again", ![i].current_time = clock]
    /\ UNCHANGED <<config, clock, call_times, request, cmd, doc, lst>>

\* line 66: self.call_times.append(time.time()); then func runs
Record(i) ==
    /\ Frame(i).pc = "record"
    /\ call_times' = Append(call_times, clock)
    /\ threads' = [threads EXCEPT ![i].pc = "idle",
                                  ![i].admitted = Frame(i).admitted + 1]
    /\ UNCHANGED <<config, clock, request, cmd, doc, lst>>

Tick ==
    /\ clock < MaxClock
    /\ clock' = clock + 1
    /\ UNCHANGED <<config, call_times, request, cmd, threads, doc, lst>>

InitConcurrent ==
    /\ calls \in 1..MaxCalls
    /\ period = 1
    /\ max_attempts = DEFAULT_RETRY_MAX_ATTEMPTS
    /\ backoff_factor = 2
    /\ Fresh

NextConcurrent ==
    \/ \E i \in Callers : Enter(i)
    \/ \E i \in Callers : EvictTest(i)
    \/ \E i \in Callers : Pop(i)
    \/ \E i \in Callers : Check(i)
    \/ \E i \in Callers : Compute(i)
    \/ \E i \in Callers : Wake(i)
    \/ \E i \in Callers : Record(i)
    \/ Tick

SpecConcurrent == InitConcurrent /\ [][NextConcurrent]_vars

\* ------------------------------------------------------------------------
\* commands/docs.py: put_doc and _delete_all_doc_blocks, one call of the
\* client at a time; ok is whether the call returned (it raised otherwise)
\* ------------------------------------------------------------------------
MaxBlocks == 201

\* the number of blocks on page p (from 1) of a list of n blocks
PageOf(n, p) == Max(0, Min(DOC_BLOCKS_LIMIT, n - (p - 1) * DOC_BLOCKS_LIMIT))

\* an exception, or a typer.Exit(1) of the body, ends the command
DocFailed(d) == [d EXCEPT !.pc = "done", !.exit = 1]

PutDoc(exists, n) ==
    /\ doc.pc = "off"
    /\ ~exists => n = 0
    /\ doc' = [NoDoc EXCEPT !.pc = "resolve", !.exists = exists, !.initial = n,
                            !.blocks = n]
    /\ UNCHANGED <<config, clock, call_times, request, cmd, threads, lst>>

\* _resolve_doc_column, _get_existing_doc_object_id and, for an existing
\* document, _resolve_doc_internal_id
Resolve(ok) ==
    /\ doc.pc = "resolve"
    /\ doc' = IF ~ok THEN DocFailed(doc)
              ELSE IF doc.exists THEN [doc EXCEPT !.pc = "fetch", !.page = 1]
              ELSE [doc EXCEPT !.pc = "create"]
    /\ UNCHANGED <<config, clock, call_times, request, cmd, threads, lst>>

\* CREATE_DOC for an item without a document
CreateDoc(ok) ==
    /\ doc.pc = "create"
    /\ doc' = IF ok THEN [doc EXCEPT !.pc = "write"] ELSE DocFailed(doc)
    /\ UNCHANGED <<config, clock, call_times, request, cmd, threads, lst>>

\* GET_DOC_BLOCKS with limit 100 and the loop's page: an empty page ends
\* _delete_all_doc_blocks, which returns deleted
FetchPage(ok) ==
    /\ doc.pc = "fetch"
    /\ doc' = IF ~ok THEN DocFailed(doc)
              ELSE IF PageOf(doc.blocks, doc.page) = 0
              THEN [doc EXCEPT !.pc = "write", !.returned = doc.deleted]
              ELSE [doc EXCEPT !.pc = "delete",
                               !.fetched = PageOf(doc.blocks, doc.page)]
    /\ UNCHANGED <<config, clock, call_times, request, cmd, threads, lst>>

\* DELETE_DOC_BLOCK for the next block of the fetched page; page += 1 after
\* the last one
DeleteBlock(ok) ==
    /\ doc.pc = "delete"
    /\ doc' = IF ~ok THEN DocFailed(doc)
              ELSE IF doc.fetched = 1
              THEN [doc EXCEPT !.blocks = @ - 1, !.deleted = @ + 1,
                               !.fetched = 0, !.page = @ + 1, !.pc = "fetch"]
              ELSE [doc EXCEPT !.blocks = @ - 1, !.deleted = @ + 1,
                               !.fetched = @ - 1]
    /\ UNCHANGED <<config, clock, call_times, request, cmd, threads, lst>>

\* ADD_CONTENT_FROM_MARKDOWN
WriteContent(ok) ==
    /\ doc.pc = "write"
    /\ doc' = [doc EXCEPT !.pc = "done", !.sent = TRUE,
                          !.exit = IF ok THEN 0 ELSE 1]
    /\ UNCHANGED <<config, clock, call_times, request, cmd, threads, lst>>

InitDocs ==
    /\ calls = 1
    /\ period = 1
    /\ max_attempts = DEFAULT_RETRY_MAX_ATTEMPTS
    /\ backoff_factor = 2
    /\ Fresh

NextDocs ==
    \/ \E exists \in BOOLEAN, n \in 0..MaxBlocks : PutDoc(exists, n)
    \/ \E ok \in BOOLEAN : Resolve(ok)
    \/ \E ok \in BOOLEAN : CreateDoc(ok)
    \/ \E ok \in BOOLEAN : FetchPage(ok)
    \/ \E ok \in BOOLEAN : DeleteBlock(ok)
    \/ \E ok \in BOOLEAN : WriteContent(ok)

SpecDocs == InitDocs /\ [][NextDocs]_vars

\* ------------------------------------------------------------------------
\* commands/items.py list_items and commands/subitems.py list_subitems,
\* one query at a time
\* ------------------------------------------------------------------------

\* what the board holds: the items of page p (ids 2p-1 and 2p belong to it)
ItemsOfPage(p) ==
    IF p % 3 = 0 THEN <<>>
    ELSE IF p % 3 = 1 THEN <<2 * p - 1, 2 * p>>
    ELSE <<2 * p - 1>>

\* the cursor the server returns with page p: none, an empty one, or the
\* token of page p + 1
CursorKinds == {"null", "empty", "next"}

CursorAfter(p, kind) ==
    IF kind = "null" THEN NullCursor
    ELSE IF kind = "empty" THEN EmptyCursor
    ELSE p + 1

\* while next_cursor: / if all_pages and next_cursor:
Truthy(cursor) == cursor > 0

\* "has_more": next_cursor is not None
HasMore(cursor) == cursor # NullCursor

ExtendReplaces(items, page_items) == page_items

\* all_items.extend(page_items)
Extend(items, page_items) == items \o page_items

\* the items of the group asked for with --group / --group-id
InGroup(items) == SelectSeq(items, LAMBDA id : id % 4 = 0)

\* an exception inside the body: list_items re-raises typer.Exit before its
\* other except clauses, list_subitems has the clauses of every command
ListFail(l, kind, code) ==
    IF l.name = "list_items" /\ kind = "Exit"
    THEN [l EXCEPT !.pc = "done", !.exit = code]
    ELSE LET h == HandleError(kind)
         IN  [l EXCEPT !.pc = "done", !.exit = h.exit,
                       !.printed = @ \cup {h.message}]

ListExit(l, message, code) ==
    ListFail([l EXCEPT !.printed = @ \cup {message}, !.body_exit = code],
             "Exit", code)

StartList(name, all, filter) ==
    /\ lst.pc = "off"
    /\ name = "list_subitems" => ~filter
    /\ lst' = [NoList EXCEPT !.name = name, !.pc = "first", !.all_pages = all,
                             !.filter = filter]
    /\ UNCHANGED <<config, clock, call_times, request, cmd, threads, doc>>

\* GET_BOARD_ITEMS: board is "none", "main" or "subitems"; on a main board
\* list_subitems asks for the subitems of every item (has_subitems: one of
\* them has some) and follows no cursor
FirstPage(ok, board, kind, has_subitems) ==
    /\ lst.pc = "first"
    /\ lst' =
          LET l == [lst EXCEPT !.queries = 1, !.pages_fetched = 1]
              cursor == CursorAfter(1, kind)
              paged == [l EXCEPT !.all_items = ItemsOfPage(1),
                                 !.next_cursor = cursor,
                                 !.pc = IF l.all_pages /\ Truthy(cursor)
                                        THEN "next" ELSE "output"]
          IN  IF ~ok THEN ListFail(l, "MondayAPIError", 1)
              ELSE IF board = "none" THEN ListExit(l, "not_found", 1)
              ELSE IF l.name = "list_items"
              THEN IF board = "subitems" THEN ListExit(l, "refused", 1)
                   ELSE paged
              ELSE IF board = "subitems" THEN paged
              ELSE IF has_subitems
              THEN [l EXCEPT !.all_items = ItemsOfPage(1), !.pc = "output"]
              ELSE ListExit(l, "no_results", 0)
    /\ UNCHANGED <<config, clock, call_times, request, cmd, threads, doc>>

\* one pass of the while loop: GET_NEXT_ITEMS_PAGE with next_cursor, then
\* the check of pages_fetched against the page limit
NextPage(ok, kind) ==
    /\ lst.pc = "next"
    /\ lst' =
          LET l == [lst EXCEPT !.pages_fetched = @ + 1, !.queries = @ + 1,
                               !.requested = Append(@, lst.next_cursor)]
              cursor == CursorAfter(lst.next_cursor, kind)
          IN  IF ~ok THEN ListFail(l, "MondayAPIError", 1)
              ELSE [l EXCEPT
                      !.all_items = Extend(@, ItemsOfPage(lst.next_cursor)),
                      !.next_cursor = cursor,
                      !.capped = l.pages_fetched > MAX_PAGES,
                      !.printed = IF l.pages_fetched > MAX_PAGES
                                  THEN @ \cup {"page_limit"} ELSE @,
                      !.pc = IF l.pages_fetched > MAX_PAGES \/ ~Truthy(cursor)
                             THEN "output" ELSE "next"]
    /\ UNCHANGED <<config, clock, call_times, request, cmd, threads, doc>>

\* the group filter (an empty result ends with typer.Exit(0)) and the output
Output ==
    /\ lst.pc = "output"
    /\ lst' =
          LET shown == IF lst.filter THEN InGroup(lst.all_items) ELSE lst.all_items
          IN  IF lst.filter /\ shown = <<>> THEN ListExit(lst, "no_results", 0)
              ELSE [lst EXCEPT !.pc = "done", !.shown = shown, !.exit = 0,
                               !.printed = @ \cup {"output"},
                               !.has_more = ~lst.all_pages /\ HasMore(lst.next_cursor)]
    /\ UNCHANGED <<config, clock, call_times, request, cmd, threads, doc>>

InitList ==
    /\ calls = 1
    /\ period = 1
    /\ max_attempts = DEFAULT_RETRY_MAX_ATTEMPTS
    /\ backoff_factor = 2
    /\ Fresh

NextList ==
    \/ \E name \in {"list_items", "list_subitems"}, all \in BOOLEAN,
          filter \in BOOLEAN : StartList(name, all, filter)
    \/ \E ok \in BOOLEAN, board \in {"none", "main", "subitems"},
          kind \in CursorKinds, has_subitems \in BOOLEAN :
          FirstPage(ok, board, kind, has_subitems)
    \/ \E ok \in BOOLEAN, kind \in CursorKinds : NextPage(ok, kind)
    \/ Output

SpecList == InitList /\ [][NextList]_vars

\* ------------------------------------------------------------------------
\* The limiter and the HTTP calls
\* ------------------------------------------------------------------------

\* C1: no window of period seconds holds more than calls recorded admission
\* timestamps; recorded keeps the timestamps of the window (clock - period,
\* clock], and the clock passes through every timestamp.
WindowCorrectness == Len(Recent(recorded, clock, period)) <= calls

\* C2: a limiter admission happens before every HTTP attempt, so a finished
\* request with k attempts has made k admissions.
AdmissionOnEveryAttempt ==
    (pc = "idle" /\ Len(outcomes) > 0) => admissions = Len(outcomes)

\* C3: at most calls HTTP POSTs are sent in any trailing window of period
\* seconds.
OutboundRateBounded == Len(Recent(posts, clock, period)) <= calls

\* ------------------------------------------------------------------------
\* The retry policy
\* ------------------------------------------------------------------------
NonRetryableKinds == {"AuthenticationError", "ComplexityError", "MondayAPIError"}

RetryableKinds == {"NetworkError", "RateLimitError"}

Last(seq) == seq[Len(seq)]

AllRetryable == \A i \in 1..Len(outcomes) : outcomes[i].kind \in RetryableKinds

\* C5: when every attempt of a request fails with Network or RateLimited, the
\* operation is invoked exactly max_attempts times (max_attempts >= 1), with
\* a backoff sleep after every attempt but the last, and the caller gets the
\* last attempt's error itself.
RetryExhaustion ==
    (pc = "idle" /\ Len(outcomes) > 0 /\ AllRetryable /\ max_attempts >= 1) =>
        /\ Len(outcomes) = max_attempts
        /\ Len(sleeps) = max_attempts - 1
        /\ Last(posts) = clock
        /\ result.status = "raised"
        /\ result.error = Last(outcomes)
        /\ result.error.kind \in RetryableKinds

RetriesExhausted ==
    /\ pc = "idle"
    /\ max_attempts = DEFAULT_RETRY_MAX_ATTEMPTS
    /\ Len(outcomes) = DEFAULT_RETRY_MAX_ATTEMPTS
    /\ AllRetryable
    /\ outcomes[1].kind = "NetworkError"
    /\ result.error.kind = "RateLimitError"
    /\ Len(sleeps) = 2

\* the attempt returned a JSON object without GraphQL errors
Succeeded(outcome) == outcome.kind = "ok" /\ outcome.response.json = "object"

\* C6: when attempts 1..k-1 fail with Network or RateLimited and attempt k
\* succeeds, the request returns attempt k's data after exactly k attempts
\* (k <= max_attempts) and k-1 sleeps, and no error reaches the caller.
StopsAtFirstSuccess ==
    /\ \A i \in 1..Len(outcomes) : Succeeded(outcomes[i]) => i = Len(outcomes)
    /\ (Len(outcomes) > 0 /\ Succeeded(Last(outcomes))) =>
        /\ pc = "idle"
        /\ \A i \in 1..(Len(outcomes) - 1) : outcomes[i].kind \in RetryableKinds
        /\ Len(outcomes) <= Max(1, max_attempts)
        /\ Len(sleeps) = Len(outcomes) - 1
        /\ result.status = "returned"
        /\ result.error = NoOutcome
        /\ result.data = (IF last_response.body.has_data
                          THEN last_response.body.data ELSE "{}")

SucceededAfterRetries ==
    /\ pc = "idle"
    /\ Len(outcomes) = 3
    /\ outcomes[1].kind = "RateLimitError"
    /\ outcomes[2].kind = "NetworkError"
    /\ Succeeded(outcomes[3])
    /\ result.status = "returned"
    /\ result.data = "d2"

\* ------------------------------------------------------------------------
\* The backoff delays
\* ------------------------------------------------------------------------
DefaultDelays == <<2, 4, 8, 16, 32, 60, 60, 60, 60, 60, 60, 60>>

\* C7: the delay after failed attempt a is min(max_wait, backoff_factor *
\* 2^(a-1)) floored at min_wait; the delays of a request are non-decreasing
\* and within [min_wait, max_wait], and with backoff_factor 2 they are
\* 2, 4, 8, 16, 32, 60, 60, ...
BackoffMonotonicity ==
    \A a \in 1..Len(sleeps) :
        /\ sleeps[a] =
              (LET capped == IF backoff_factor * 2^(a - 1) > DEFAULT_RETRY_MAX_WAIT
                             THEN DEFAULT_RETRY_MAX_WAIT
                             ELSE backoff_factor * 2^(a - 1)
               IN  IF capped < DEFAULT_RETRY_MIN_WAIT THEN DEFAULT_RETRY_MIN_WAIT
                   ELSE capped)
        /\ sleeps[a] >= DEFAULT_RETRY_MIN_WAIT
        /\ sleeps[a] <= DEFAULT_RETRY_MAX_WAIT
        /\ (a > 1 => sleeps[a - 1] <= sleeps[a])
        /\ ((backoff_factor = 2 /\ a <= Len(DefaultDelays)) =>
                sleeps[a] = DefaultDelays[a])

BackoffReachesCap ==
    /\ backoff_factor = 2
    /\ Len(sleeps) >= 7
    /\ sleeps[5] = 32
    /\ sleeps[6] = 60
    /\ sleeps[7] = 60

\* ------------------------------------------------------------------------
\* The classification of one attempt
\* ------------------------------------------------------------------------
Attempted == Len(outcomes) > 0 /\ last_response # NoResponse

\* C8: every HTTP 429 is classified RateLimited(retry_after), retry_after
\* being the Retry-After header as an integer, or 60 when the header is
\* absent or is not an integer.
RateLimitedClassification ==
    (Attempted /\ last_response.transport = "ok" /\ last_response.status = 429) =>
        /\ Last(outcomes).kind = "RateLimitError"
        /\ Last(outcomes).retry_after =
              (IF last_response.retry_after.present
                  /\ PyInt(last_response.retry_after.value).ok
               THEN PyInt(last_response.retry_after.value).value
               ELSE DEFAULT_RETRY_AFTER)

\* "complexity" occurs in m, letter case ignored
MentionsComplexity(m) ==
    \E i \in 1..(Len(m) - 9) : \A j \in 1..10 : LowerChar(m[i + j - 1]) = Complexity[j]

RECURSIVE JoinedLength(_)
JoinedLength(msgs) ==
    IF Len(msgs) = 0 THEN 0
    ELSE IF Len(msgs) = 1 THEN Len(msgs[1])
    ELSE Len(msgs[1]) + 2 + JoinedLength(Tail(msgs))

\* text is the messages in order, with "; " between neighbours
IsJoinOf(text, msgs) ==
    /\ Len(text) = JoinedLength(msgs)
    /\ \A i \in 1..Len(msgs) :
          LET start == JoinedLength(SubSeq(msgs, 1, i - 1)) + (IF i > 1 THEN 2 ELSE 0)
          IN  /\ SubSeq(text, start + 1, start + Len(msgs[i])) = msgs[i]
              /\ (i > 1 => text[start - 1] = ";" /\ text[start] = " ")

HasGraphQLErrors(resp) ==
    /\ resp.transport = "ok"
    /\ resp.status >= 200
    /\ resp.status < 300
    /\ resp.body.json = "object"
    /\ resp.body.errors_key = "array"
    /\ resp.body.errors # <<>>

\* C9: a 2xx response with a non-empty errors array is Complexity when some
\* message mentions "complexity" in any letter case, never APIError; without
\* such a message it is APIError, whose text joins all messages with "; "
\* and which carries the raw response.
ComplexityDetection ==
    (Attempted /\ HasGraphQLErrors(last_response)) =>
        LET msgs == ErrorMessages(last_response.body.errors)
            out == Last(outcomes)
        IN  IF \E i \in 1..Len(msgs) : MentionsComplexity(msgs[i])
            THEN out.kind = "ComplexityError"
            ELSE /\ out.kind = "MondayAPIError"
                 /\ Len(out.message) > 0
                 /\ out.message[1] = "GraphQL errors: "
                 /\ IsJoinOf(Tail(out.message), msgs)
                 /\ out.response = last_response.body

ComplexityDetected ==
    /\ Attempted
    /\ HasGraphQLErrors(last_response)
    /\ Len(last_response.body.errors) = 2
    /\ last_response.body.errors[1].message = MsgNotFound
    /\ last_response.body.errors[2].message = MsgMixedCase
    /\ Last(outcomes).kind = "ComplexityError"
    /\ result.status = "raised"

\* C10: a transport timeout/connect/network failure is Network; otherwise
\* 401 is Authentication; otherwise another non-2xx status but 429 is
\* APIError; otherwise a 2xx body that is not JSON is APIError; the body of
\* a non-2xx response is never inspected for GraphQL errors.
ClassificationPriority ==
    Attempted =>
        LET resp == last_response
            out == Last(outcomes)
            non2xx == resp.transport = "ok" /\ (resp.status < 200 \/ resp.status > 299)
        IN  /\ resp.transport \in {"timeout", "connect", "network"} =>
                  out.kind = "NetworkError"
            /\ (resp.transport = "ok" /\ resp.status = 401) =>
                  out.kind = "AuthenticationError"
            /\ (non2xx /\ resp.status \notin {401, 429}) => out.kind = "MondayAPIError"
            /\ (resp.transport = "ok" /\ ~non2xx /\ resp.body.json = "invalid") =>
                  out.kind = "MondayAPIError"
            /\ non2xx =>
                  /\ out.kind # "ComplexityError"
                  /\ out.response = NoBody
                  /\ \A i \in 1..Len(out.message) :
                        out.message[i] \in {"Invalid API token", "HTTP ", ": ",
                                            ToString(resp.status)}

StatusBeforePayload ==
    /\ Attempted
    /\ last_response.status = 500
    /\ last_response.body.json = "object"
    /\ Len(last_response.body.errors) = 1
    /\ last_response.body.errors[1].message = MsgComplexity
    /\ Last(outcomes).kind = "MondayAPIError"
    /\ result.status = "raised"

\* ------------------------------------------------------------------------
\* The error taxonomy and the success path
\* ------------------------------------------------------------------------
ClassifiedKinds ==
    {"AuthenticationError", "RateLimitError", "ComplexityError", "NetworkError",
     "MondayAPIError"}

\* C11: every failed attempt yields one of the five classified kinds, and
\* nothing else is raised to the caller of execute_query / execute_mutation.
TaxonomyTotality ==
    /\ \A i \in 1..Len(outcomes) :
          outcomes[i].kind # "ok" => outcomes[i].kind \in ClassifiedKinds
    /\ result.status = "raised" => result.error.kind \in ClassifiedKinds

\* a 2xx JSON object whose errors key is absent, null or an empty array
SuccessResponse(resp) ==
    /\ resp.transport = "ok"
    /\ resp.status >= 200
    /\ resp.status < 300
    /\ resp.body.json = "object"
    /\ (resp.body.errors_key \in {"absent", "null"} \/ resp.body.errors = <<>>)

\* C12: when the POST comes back 2xx with a JSON object without errors, the
\* request returns the body's data (the empty mapping when data is absent)
\* at once: that attempt is the last, no sleep follows it, no error is
\* raised; as the first response it makes exactly one attempt and no sleep.
SuccessPath ==
    (Attempted /\ SuccessResponse(last_response)) =>
        /\ pc = "idle"
        /\ result.status = "returned"
        /\ result.error = NoOutcome
        /\ result.data = (IF last_response.body.has_data
                          THEN last_response.body.data ELSE "{}")
        /\ Last(outcomes).kind = "ok"
        /\ Len(sleeps) = Len(outcomes) - 1
        /\ Last(posts) = clock

ReturnedEmptyMapping ==
    /\ Attempted
    /\ SuccessResponse(last_response)
    /\ ~last_response.body.has_data
    /\ max_attempts = DEFAULT_RETRY_MAX_ATTEMPTS
    /\ Len(outcomes) = 1
    /\ sleeps = <<>>
    /\ result.status = "returned"
    /\ result.data = "{}"

\* C13: the limiter never rejects: every admission completes, records a
\* timestamp and invokes the wrapped call, and the limiter raises nothing.
LimiterNeverRejects ==
    nreq > 0 => (admissions = 1 /\ result.error.kind # "IndexError")

\* ------------------------------------------------------------------------
\* The order of the steps of one attempt
\* ------------------------------------------------------------------------

JustAdmitted == last_admission.active /\ Len(outcomes) = 0

Sorted(times) == \A i \in 1..(Len(times) - 1) : times[i] <= times[i + 1]

\* C15, as claimed: right after an admission the window is in non-decreasing
\* order, most recent last, and every timestamp t has now - period <= t <=
\* now, now being the time of the timestamp just recorded.
RateWindowInvariant ==
    JustAdmitted =>
        /\ Sorted(call_times)
        /\ Last(call_times) = clock
        /\ \A i \in 1..Len(call_times) :
              clock - period <= call_times[i] /\ call_times[i] <= clock

\* C15, amended: right after an admission the window is in non-decreasing
\* order, most recent last, and every timestamp t has checked - period <= t
\* <= now, where checked <= now is the clock reading the admission's last
\* eviction used (the recorded timestamp is a later reading of the clock).
RateWindowInvariantAtEviction ==
    JustAdmitted =>
        /\ Sorted(call_times)
        /\ Last(call_times) = clock
        /\ last_admission.now = clock
        /\ last_admission.checked <= clock
        /\ \A i \in 1..Len(call_times) :
              /\ last_admission.checked - period <= call_times[i]
              /\ call_times[i] <= clock

StaleEntriesEvicted ==
    /\ JustAdmitted
    /\ Len(last_admission.before) >= 2
    /\ last_admission.before[2] < last_admission.checked - period
    /\ call_times = <<clock>>

RetryStateFresh ==
    /\ pc = "attempt" => attempt_number = Len(outcomes) + 1
    /\ Len(outcomes) <= Max(1, max_attempts)
    /\ (pc = "idle" /\ Len(outcomes) > 0 /\ AllRetryable) =>
          Len(outcomes) = Max(1, max_attempts)
    /\ Len(sleeps) > 0 =>
          sleeps[1] = Max(DEFAULT_RETRY_MIN_WAIT,
                          Min(backoff_factor, DEFAULT_RETRY_MAX_WAIT))

FreshAfterRetries ==
    /\ retried_before
    /\ nreq >= 2
    /\ pc = "idle"
    /\ max_attempts = DEFAULT_RETRY_MAX_ATTEMPTS
    /\ Len(outcomes) = DEFAULT_RETRY_MAX_ATTEMPTS
    /\ AllRetryable
    /\ Len(sleeps) = 2

\* ------------------------------------------------------------------------
\* The commands
\* ------------------------------------------------------------------------
CommandDone == cmd.pc = "done"

\* C18, as claimed: a command in which execute_query or execute_mutation
\* raised one of the five error kinds prints an error message, ends with a
\* non-zero exit status and never reports success.
NoErrorKindIgnored ==
    (CommandDone /\ cmd.raised # {}) =>
        /\ cmd.exit > 0
        /\ cmd.printed \cap ErrorMessageKinds # {}
        /\ "success" \notin cmd.printed

\* groups delete: DELETE_GROUP raised an APIError that mentions
\* "unauthorized" and the verification query no longer lists the group
DeletedDespiteError ==
    /\ cmd.name = "delete_group"
    /\ cmd.pending
    /\ cmd.raised = {"MondayAPIError"}
    /\ cmd.verified = "absent"

\* C18, amended: a command in which execute_query or execute_mutation raised
\* one of the five error kinds prints an error message and ends with exit
\* status 1 without reporting success, except groups delete when DELETE_GROUP
\* raised an APIError mentioning "unauthorized" and the verification query
\* that follows returns and no longer lists the group: that reports success
\* and ends with status 0.
ErrorKindsReported ==
    (CommandDone /\ cmd.raised # {}) =>
        IF DeletedDespiteError
        THEN /\ cmd.exit = 0
             /\ "success" \in cmd.printed
             /\ cmd.printed \cap ErrorMessageKinds = {}
        ELSE /\ cmd.exit = 1
             /\ cmd.printed \cap ErrorMessageKinds # {}
             /\ "success" \notin cmd.printed
             /\ (cmd.raised \cap {"NetworkError", "ComplexityError"} # {}) =>
                   "unexpected_error" \in cmd.printed

VerificationRaised ==
    /\ CommandDone
    /\ cmd.name = "delete_group"
    /\ cmd.pending
    /\ cmd.raised = {"MondayAPIError", "RateLimitError"}
    /\ cmd.exit = 1
    /\ "rate_limit" \in cmd.printed

\* ------------------------------------------------------------------------
\* Concurrent callers of one limiter
\* ------------------------------------------------------------------------
InWrapper(i) == Frame(i).pc \notin {"idle", "failed"}

\* C19: with two callers on one limiter, at most one caller is between the
\* wrapper's first clock reading and its append at any time, no window of
\* period seconds holds more than calls timestamps, and no admission fails.
ConcurrentAdmissions ==
    /\ \A i, j \in Callers : (InWrapper(i) /\ InWrapper(j)) => i = j
    /\ \A k \in 1..Len(call_times) :
          Cardinality({j \in 1..Len(call_times) :
                          /\ call_times[j] > call_times[k] - period
                          /\ call_times[j] <= call_times[k]}) <= calls
    /\ \A i \in Callers : Frame(i).pc # "failed"

\* ------------------------------------------------------------------------
\* docs put
\* ------------------------------------------------------------------------

\* C20: on an existing document, when _delete_all_doc_blocks has returned
\* the document has no blocks and the returned count is the initial number
\* of blocks, and the markdown is sent only after it returned.
DeletesAllBeforeWriting ==
    /\ (doc.exists /\ doc.returned # NoCount) =>
          (doc.blocks = 0 /\ doc.returned = doc.initial)
    /\ (doc.exists /\ doc.sent) => doc.returned # NoCount

\* ------------------------------------------------------------------------
\* The window across a failed call, and the waits of a request
\* ------------------------------------------------------------------------

\* C25: the admission's timestamp is in the window before the wrapped call
\* runs, and no attempt of that call, failed or not, adds, removes or
\* changes a window entry: a request that raises leaves its timestamp there.
WindowUnchangedByCall ==
    [][pc = "attempt" =>
          /\ Len(call_times) > 0
          /\ Last(call_times) = last_admission.now
          /\ call_times' = call_times]_vars

FailedCallKeptSlot ==
    /\ pc = "idle"
    /\ result.status = "raised"
    /\ Len(outcomes) = 3
    /\ Last(outcomes).kind = "RateLimitError"
    /\ admissions = 1
    /\ Len(call_times) > 0
    /\ Last(call_times) < clock

\* C26: the i-th wait of a request is backoff_factor * 2^(i-1) clamped to
\* [1, 60] whatever the failed attempts were (Network or RateLimited, with
\* any retry_after), and a request whose attempts all fail retryably makes
\* max_attempts attempts: waits and attempt counts are those of any other
\* run with the same configuration.
DelayFromAttemptNumberAlone ==
    /\ \A i \in 1..Len(sleeps) :
          /\ sleeps[i] = Max(DEFAULT_RETRY_MIN_WAIT,
                             Min(backoff_factor * Pow2(i - 1), DEFAULT_RETRY_MAX_WAIT))
          /\ outcomes[i].kind \in RetryableKinds
    /\ (pc = "idle" /\ Len(outcomes) > 0) =>
          /\ Len(sleeps) = Len(outcomes) - 1
          /\ AllRetryable => Len(outcomes) = max_attempts

RetryAfterNotHonoured ==
    /\ pc = "idle"
    /\ backoff_factor = 1
    /\ Len(outcomes) = 3
    /\ outcomes[1].kind = "RateLimitError"
    /\ outcomes[1].retry_after = DEFAULT_RETRY_AFTER
    /\ outcomes[2].kind = "RateLimitError"
    /\ outcomes[2].retry_after = 2
    /\ outcomes[3].kind = "NetworkError"
    /\ sleeps = <<1, 2>>

\* C27: after an admission the window holds at most calls timestamps, also
\* when the caller woke exactly period after the oldest entry.
WindowSizeBound == JustAdmitted => Len(call_times) <= calls

\* C28: a request that has ended made at least one attempt, and a request
\* never makes more than max(1, max_attempts) attempts, for max_attempts
\* from -1 up.
AttemptCountBounds ==
    /\ Len(outcomes) <= Max(1, max_attempts)
    /\ (pc = "idle" /\ nreq > 0) => Len(outcomes) >= 1

\* ------------------------------------------------------------------------
\* The delete commands and the exit status
\* ------------------------------------------------------------------------

\* C23: DELETE_ITEM / DELETE_GROUP is sent at most once, only by a delete
\* command whose lookup found the target and that was given the
\* skip-confirmation flag or a yes at the prompt; after a no, nothing is sent.
DestructiveGated ==
    /\ cmd.mutations > 0 =>
          /\ cmd.mutations = 1
          /\ cmd.name \in {"delete_item", "delete_group"}
          /\ cmd.looked = "present"
          /\ cmd.skip_confirm \/ cmd.confirmed = "yes"
    /\ cmd.confirmed = "no" => (cmd.mutations = 0 /\ cmd.pc = "done")
    /\ cmd.pc \in {"delete", "verify"} =>
          (cmd.looked = "present" /\ (cmd.skip_confirm \/ cmd.confirmed = "yes"))

DeletedAfterYes ==
    /\ CommandDone
    /\ cmd.name = "delete_group"
    /\ ~cmd.skip_confirm
    /\ cmd.confirmed = "yes"
    /\ cmd.mutations = 1
    /\ "success" \in cmd.printed
    /\ cmd.exit = 0

\* C24: a command whose body raised typer.Exit(0) ends with exit status 0
\* and prints no 'Unexpected error'.
ExitStatusPreserved ==
    (CommandDone /\ cmd.body_exit = 0) =>
        (cmd.exit = 0 /\ "unexpected_error" \notin cmd.printed)

\* ------------------------------------------------------------------------
\* The list commands
\* ------------------------------------------------------------------------

\* C21: a list command issues at most 1000 page queries, the first page
\* included, however long the server goes on returning cursors.
PageQueriesCapped == lst.queries <= MAX_PAGES

\* the number of items on the pages before page p
Offset(p) ==
    3 * ((p - 1) \div 3)
        + (IF (p - 1) % 3 = 0 THEN 0 ELSE IF (p - 1) % 3 = 1 THEN 2 ELSE 3)

\* C22: in items list, the collected items are the items of the pages
\* queried, in fetch order; the cursors sent are the cursors returned, each
\* once; pages_fetched is the number of page queries; without --all there is
\* one query and has_more tells whether the returned cursor is not null.
PaginationComplete ==
    (lst.name = "list_items" /\ lst.pc \in {"next", "output", "done"}
        /\ lst.exit \in {NoExit, 0} /\ lst.queries > 0 /\ lst.body_exit # 1) =>
        /\ lst.pages_fetched = lst.queries
        /\ Len(lst.all_items) = Offset(lst.queries + 1)
        /\ \A p \in 1..lst.queries :
              SubSeq(lst.all_items, Offset(p) + 1, Offset(p + 1)) = ItemsOfPage(p)
        /\ lst.requested = [i \in 1..(lst.queries - 1) |-> i + 1]
        /\ lst.pc = "next" => lst.next_cursor = lst.queries + 1
        /\ (lst.pc # "next" /\ ~lst.capped /\ lst.all_pages) =>
              lst.next_cursor \in {NullCursor, EmptyCursor}
        /\ ~lst.all_pages => lst.queries = 1
        /\ (~lst.all_pages /\ lst.pc = "done" /\ lst.exit = 0 /\ lst.body_exit = NoExit) =>
              (lst.has_more <=> lst.next_cursor # NullCursor)

FollowedTheChain ==
    /\ lst.name = "list_items"
    /\ lst.all_pages
    /\ lst.pc = "done"
    /\ lst.exit = 0
    /\ lst.queries = 5
    /\ lst.next_cursor = NullCursor
    /\ lst.all_items = <<1, 2, 3, 7, 8, 9>>

====
